---- MODULE Spec2Model ----
(***************************************************************************)
(* A model of lyrebird's renderer crate: the input aggregator              *)
(* (crates/lyrebird-renderer/src/input.rs, InputManager / InputInner) and  *)
(* the application runtime (crates/lyrebird-renderer/src/lib.rs, State and *)
(* App's ApplicationHandler callbacks).                                    *)
(*                                                                         *)
(* f32 values are modelled as records [k, v]: k = "fin" with v the value   *)
(* in tenths (One = 1.0), k = "nan", or k = "inf" with v the sign.         *)
(* Option<T> is modelled as a sequence of length 0 (None) or 1 (Some).     *)
(***************************************************************************)
EXTENDS Integers, Sequences, FiniteSets, TLC

VARIABLES
    inner,      \* InputInner, the state behind InputManager's mutex
    snap,       \* the GamepadsSnapshot a hosted application holds, if any
    hist,       \* history of the drained gilrs events and of the last operation
    produced,   \* number of input stimuli (gilrs events, window events) so far
    app,        \* App<T>: the runtime and the record of the hosted callbacks
    conc        \* the mutex of InputManager and the callers holding clones of it

vars == <<inner, snap, hist, produced, app, conc>>

----------------------------------------------------------------------------
(* Bounds of the model *)

\* total number of input stimuli (backend events plus polled window events)
MaxInputs == 2
\* total number of backend events in the analog-value specification
MaxAnalogEvents == 2
\* total number of window events in the window-input specification
MaxPolls == 3
\* number of window events the runtime specification delivers
MaxWindowEvents == 4
\* gilrs events the backend queues while callers contend for the lock
MaxLockEvents == 1

----------------------------------------------------------------------------
(* f32 *)

\* 1.0 in tenths
One == 10

NaN == [k |-> "nan", v |-> 0]
PosInf == [k |-> "inf", v |-> 1]
NegInf == [k |-> "inf", v |-> -1]
Fin(n) == [k |-> "fin", v |-> n]
Zero == Fin(0)

\* f32::is_finite
is_finite(x) == x.k = "fin"

\* the f32 comparison x < y (false when either side is NaN)
FLt(x, y) ==
    IF x.k = "nan" \/ y.k = "nan" THEN FALSE
    ELSE IF x.k = "inf" THEN x.v < 0 /\ ~(y.k = "inf" /\ y.v < 0)
    ELSE IF y.k = "inf" THEN y.v > 0
    ELSE x.v < y.v

\* f32::clamp: if self < min { min } else if self > max { max } else { self },
\* so a NaN comes back as NaN
clamp(x, lo, hi) ==
    IF FLt(x, lo) THEN lo
    ELSE IF FLt(hi, x) THEN hi
    ELSE x

\* f32 addition (scroll_delta.0 += x), without rounding
FAdd(x, y) ==
    IF x.k = "nan" \/ y.k = "nan" THEN NaN
    ELSE IF x.k = "inf" /\ y.k = "inf" THEN (IF x.v = y.v THEN x ELSE NaN)
    ELSE IF x.k = "inf" THEN x
    ELSE IF y.k = "inf" THEN y
    ELSE Fin(x.v + y.v)

\* normalize_axis_value with the finiteness test dropped
normalize_axis_value_clamp_only(value) == clamp(value, Fin(-One), Fin(One))

normalize_axis_value(value) ==
    IF is_finite(value) THEN clamp(value, Fin(-One), Fin(One)) ELSE Zero

----------------------------------------------------------------------------
(* f64, and its conversion to f32 *)

\* an f64 is modelled as an f32 is, with one more kind: k = "big", a finite
\* f64 whose magnitude is beyond f32::MAX, with v the sign
F64Big(sign) == [k |-> "big", v |-> sign]

\* `x as f32` of an f64: a finite value beyond the range of f32 becomes the
\* infinity of its sign (the values in tenths are taken as representable)
as_f32(x) == IF x.k = "big" THEN [k |-> "inf", v |-> x.v] ELSE x

----------------------------------------------------------------------------
(* Option *)

None == <<>>
Some(x) == <<x>>

----------------------------------------------------------------------------
(* The gamepad backend (gilrs) and its events *)

GamepadIds == {1, 2}
Buttons == {"South", "Start"}
Axes == {"LeftStickX"}

\* the devices gilrs can report as connected when InputInner::new runs
SeedChoices == {{}, {1}}

\* gilrs's name of a device
DeviceName(id) == IF id = 1 THEN "pad1" ELSE "pad2"

GEvent(id, kind, button, axis, value) ==
    [id |-> id, kind |-> kind, button |-> button, axis |-> axis, value |-> value]

Connected(id) == GEvent(id, "Connected", "-", "-", Zero)
Disconnected(id) == GEvent(id, "Disconnected", "-", "-", Zero)
ButtonPressed(id, b) == GEvent(id, "ButtonPressed", b, "-", Zero)
ButtonReleased(id, b) == GEvent(id, "ButtonReleased", b, "-", Zero)
ButtonChanged(id, b, x) == GEvent(id, "ButtonChanged", b, "-", x)
AxisChanged(id, a, x) == GEvent(id, "AxisChanged", "-", a, x)
\* any EventType the match has no arm for (ButtonRepeated, Dropped, ...)
OtherEvent(id) == GEvent(id, "ButtonRepeated", "South", "-", Zero)

\* the f32 values of the axis-changed events of the analog-value specification
AxisInputs ==
    {NaN, PosInf, NegInf} \cup
    {Fin(n) : n \in {-2 * One, -One, 3, One, One + 5}}

\* the f32 values of its button-changed events
ButtonInputs ==
    {NaN, PosInf, NegInf} \cup {Fin(n) : n \in {-5, 0, 3, One + 5}}

\* the backend events of the main specification
CoreEvents ==
    UNION {
        {Connected(id), Disconnected(id), OtherEvent(id),
         ButtonChanged(id, "South", Fin(5)),
         AxisChanged(id, "LeftStickX", Fin(One + 5))}
        \cup {ButtonPressed(id, b) : b \in Buttons}
        \cup {ButtonReleased(id, b) : b \in Buttons}
        : id \in GamepadIds}

\* the backend events of the analog-value specification
AnalogEvents ==
    {ButtonChanged(id, "South", x) : id \in GamepadIds, x \in ButtonInputs}
    \cup {AxisChanged(id, "LeftStickX", x) : id \in GamepadIds, x \in AxisInputs}

----------------------------------------------------------------------------
(* Window events (winit::event::WindowEvent) *)

KeyCodes == {"Escape", "KeyA"}
MouseButtons == {"Left", "Right"}
ElementStates == {"Pressed", "Released"}

WEvent(kind, code, state, button, x, y) ==
    [kind |-> kind, code |-> code, state |-> state, button |-> button,
     x |-> x, y |-> y]

\* KeyboardInput with physical_key = PhysicalKey::Code(code)
KeyboardInput(code, state) == WEvent("KeyboardInput", code, state, "-", Zero, Zero)
\* KeyboardInput with physical_key = PhysicalKey::Unidentified(_)
KeyboardInputUnidentified(state) ==
    WEvent("KeyboardInput", "Unidentified", state, "-", Zero, Zero)
CursorMoved(x, y) == WEvent("CursorMoved", "-", "-", "-", x, y)
MouseInput(button, state) == WEvent("MouseInput", "-", state, button, Zero, Zero)
\* MouseWheel with MouseScrollDelta::LineDelta(x, y)
MouseWheelLine(x, y) == WEvent("MouseWheelLine", "-", "-", "-", x, y)
\* MouseWheel with MouseScrollDelta::PixelDelta(pos): x, y hold the f64
\* pos.x and pos.y
MouseWheelPixel(x, y) == WEvent("MouseWheelPixel", "-", "-", "-", x, y)
ModifiersChanged == WEvent("ModifiersChanged", "-", "-", "-", Zero, Zero)
CloseRequested == WEvent("CloseRequested", "-", "-", "-", Zero, Zero)
RedrawRequested == WEvent("RedrawRequested", "-", "-", "-", Zero, Zero)
\* Resized(size): x, y hold size.width and size.height
Resized(w, h) == WEvent("Resized", "-", "-", "-", w, h)
\* a WindowEvent no code of the crate looks at (Focused, Moved, ...)
Focused == WEvent("Focused", "-", "-", "-", Zero, Zero)

\* the window events of the window-input specification
PollEvents ==
    {KeyboardInput(c, s) : c \in KeyCodes, s \in ElementStates}
    \cup {KeyboardInputUnidentified(s) : s \in ElementStates}
    \cup {MouseInput(b, s) : b \in MouseButtons, s \in ElementStates}
    \cup {CursorMoved(Fin(3), Fin(5)), CursorMoved(Fin(0), Fin(0)),
          MouseWheelLine(Fin(One), Fin(-One)),
          MouseWheelLine(Fin(-One), Fin(0)),
          MouseWheelPixel(Fin(5), Fin(0)),
          MouseWheelPixel(F64Big(1), Fin(-One)),
          ModifiersChanged}

\* the window events the main specification polls between two frames
FramePollEvents ==
    {KeyboardInput("Escape", "Pressed"), MouseInput("Left", "Pressed"),
     CursorMoved(Fin(3), Fin(5)), MouseWheelLine(Fin(One), Fin(-One))}

\* InputManager::is_input_event
\* the predicate letting Resized through as well
is_input_event_with_resize(event) ==
    event.kind \in {"KeyboardInput", "CursorMoved", "MouseInput",
                    "MouseWheelLine", "MouseWheelPixel", "ModifiersChanged",
                    "Resized"}

is_input_event(event) ==
    event.kind \in {"KeyboardInput", "CursorMoved", "MouseInput",
                    "MouseWheelLine", "MouseWheelPixel", "ModifiersChanged"}

----------------------------------------------------------------------------
(* InputInner *)

\* GamepadInfo::default
GamepadInfo_default == [name |-> "", is_connected |-> FALSE]

\* GamepadState::default (derived): default info, empty set and maps
GamepadState_default ==
    [info |-> GamepadInfo_default, buttons_down |-> {},
     button_values |-> << >>, axes |-> << >>]

\* GamepadFrameDeltas::default (derived)
GamepadFrameDeltas_default == [just_pressed |-> {}, just_released |-> {}]

\* the map m with key k set to v (HashMap::insert)
MapInsert(m, k, v) == (k :> v) @@ m

\* InputInner::new, with `seed` the devices gilrs reports at construction
InputInner_new(seed) ==
    [gilrs |-> [events |-> << >>,
                connected |-> [id \in GamepadIds |-> id \in seed]],
     latest_event |-> None,
     keys_down |-> {},
     mouse_buttons_down |-> {},
     cursor_position |-> None,
     scroll_delta |-> <<Zero, Zero>>,
     last_key |-> None,
     last_mouse_button |-> None,
     gamepads |-> [id \in seed |->
                     [GamepadState_default EXCEPT
                        !.info = [name |-> DeviceName(id), is_connected |-> TRUE]]],
     gamepad_frame |-> GamepadFrameDeltas_default]

\* refresh_gamepad_info with the entry replaced by a fresh one
refresh_gamepad_info_fresh(s, id) ==
    [s EXCEPT !.gamepads = MapInsert(@, id,
        [GamepadState_default EXCEPT
           !.info = [name |-> DeviceName(id),
                     is_connected |-> s.gilrs.connected[id]]])]

\* InputInner::refresh_gamepad_info
refresh_gamepad_info(s, id) ==
    LET entry == IF id \in DOMAIN s.gamepads THEN s.gamepads[id]
                 ELSE GamepadState_default
    IN [s EXCEPT !.gamepads = MapInsert(@, id,
           [entry EXCEPT !.info = [name |-> DeviceName(id),
                                   is_connected |-> s.gilrs.connected[id]]])]

\* self.gamepads.entry(id).or_default()
entry_or_default(s, id) ==
    IF id \in DOMAIN s.gamepads THEN s
    ELSE [s EXCEPT !.gamepads = MapInsert(@, id, GamepadState_default)]

\* the ButtonPressed arm of pump_gilrs_events
\* the ButtonPressed arm with a press of a held button releasing it
OnButtonPressed_toggle(s0, id, button) ==
    LET s == entry_or_default(refresh_gamepad_info(s0, id), id)
    IN [s EXCEPT !.gamepads[id].buttons_down =
                    IF button \in @ THEN @ \ {button} ELSE @ \cup {button},
                 !.gamepad_frame.just_pressed = @ \cup {<<id, button>>}]

OnButtonPressed(s0, id, button) ==
    LET s == entry_or_default(refresh_gamepad_info(s0, id), id)
    IN [s EXCEPT !.gamepads[id].buttons_down = @ \cup {button},
                 !.gamepad_frame.just_pressed = @ \cup {<<id, button>>}]

\* the ButtonReleased arm with the removal from buttons_down left out
OnButtonReleased_keep(s0, id, button) ==
    LET s == refresh_gamepad_info(s0, id)
    IN [s EXCEPT !.gamepad_frame.just_released = @ \cup {<<id, button>>}]

\* the ButtonReleased arm of pump_gilrs_events
OnButtonReleased(s0, id, button) ==
    LET s == refresh_gamepad_info(s0, id)
        t == IF id \in DOMAIN s.gamepads
             THEN [s EXCEPT !.gamepads[id].buttons_down = @ \ {button}]
             ELSE s
    IN [t EXCEPT !.gamepad_frame.just_released = @ \cup {<<id, button>>}]

\* the ButtonChanged arm of pump_gilrs_events
OnButtonChanged(s0, id, button, value) ==
    LET s == entry_or_default(refresh_gamepad_info(s0, id), id)
    IN [s EXCEPT !.gamepads[id].button_values =
                    MapInsert(@, button, clamp(value, Zero, Fin(One)))]

\* the AxisChanged arm of pump_gilrs_events
OnAxisChanged(s0, id, axis, value) ==
    LET s == entry_or_default(refresh_gamepad_info(s0, id), id)
    IN [s EXCEPT !.gamepads[id].axes =
                    MapInsert(@, axis, normalize_axis_value(value))]

\* self.gilrs.next_event() when an event is pending: the event is taken from
\* the queue and gilrs's own record of the device's connection follows it
gilrs_pop(s) ==
    LET ev == Head(s.gilrs.events)
    IN [s EXCEPT !.gilrs.events = Tail(@),
                 !.gilrs.connected[ev.id] =
                    IF ev.kind = "Connected" THEN TRUE
                    ELSE IF ev.kind = "Disconnected" THEN FALSE
                    ELSE @]

\* the match on ev.event in pump_gilrs_events
HandleEvent(s, ev) ==
    CASE ev.kind = "Connected" -> refresh_gamepad_info(s, ev.id)
      [] ev.kind = "Disconnected" -> refresh_gamepad_info(s, ev.id)
      [] ev.kind = "ButtonPressed" -> OnButtonPressed(s, ev.id, ev.button)
      [] ev.kind = "ButtonReleased" -> OnButtonReleased(s, ev.id, ev.button)
      [] ev.kind = "ButtonChanged" -> OnButtonChanged(s, ev.id, ev.button, ev.value)
      [] ev.kind = "AxisChanged" -> OnAxisChanged(s, ev.id, ev.axis, ev.value)
      [] OTHER -> s

\* the while-let loop of pump_gilrs_events
RECURSIVE DrainEvents(_)
DrainEvents(s) ==
    IF s.gilrs.events = << >> THEN s
    ELSE DrainEvents(HandleEvent(gilrs_pop(s), Head(s.gilrs.events)))

\* pump_gilrs_events without the two clear() calls
pump_gilrs_events_no_clear(s) == DrainEvents(s)

\* InputInner::pump_gilrs_events
pump_gilrs_events(s) ==
    DrainEvents([s EXCEPT !.gamepad_frame.just_pressed = {},
                          !.gamepad_frame.just_released = {}])

----------------------------------------------------------------------------
(* InputManager: each operation is the state after lock(), the body and    *)
(* the release of the guard                                                *)

\* reset_frame_deltas that clears last_key only
reset_frame_deltas_partial(s) == [s EXCEPT !.last_key = None]

\* reset_frame_deltas that leaves the scroll accumulator alone
reset_frame_deltas_keep_scroll(s) ==
    [s EXCEPT !.last_key = None, !.last_mouse_button = None]

\* reset_frame_deltas that clears the held keys as well
reset_frame_deltas_all(s) ==
    [s EXCEPT !.scroll_delta = <<Zero, Zero>>, !.last_key = None,
              !.last_mouse_button = None, !.keys_down = {}]

\* InputManager::reset_frame_deltas
reset_frame_deltas(s) ==
    [s EXCEPT !.scroll_delta = <<Zero, Zero>>,
              !.last_key = None,
              !.last_mouse_button = None]

\* InputManager::update_gamepads (not(target_arch = "wasm32"))
update_gamepads(s) == pump_gilrs_events(s)

\* the match on the event in InputManager::poll
poll_match(s, event) ==
    CASE event.kind = "KeyboardInput" ->
            IF event.code \in KeyCodes
            THEN [s EXCEPT !.last_key = Some(<<event.code, event.state>>),
                           !.keys_down = IF event.state = "Pressed"
                                         THEN @ \cup {event.code}
                                         ELSE @ \ {event.code}]
            ELSE s
      [] event.kind = "CursorMoved" ->
            [s EXCEPT !.cursor_position = Some(<<event.x, event.y>>)]
      [] event.kind = "MouseInput" ->
            [s EXCEPT !.last_mouse_button = Some(<<event.button, event.state>>),
                      !.mouse_buttons_down = IF event.state = "Pressed"
                                             THEN @ \cup {event.button}
                                             ELSE @ \ {event.button}]
      [] event.kind = "MouseWheelLine" ->
            [s EXCEPT !.scroll_delta = <<FAdd(@[1], event.x), FAdd(@[2], event.y)>>]
      [] event.kind = "MouseWheelPixel" ->
            [s EXCEPT !.scroll_delta = <<FAdd(@[1], as_f32(event.x)),
                                         FAdd(@[2], as_f32(event.y))>>]
      [] OTHER -> s

\* poll with the PixelDelta arm of the wheel left out
poll_lines_only(s, event) ==
    IF event.kind = "MouseWheelPixel"
    THEN [s EXCEPT !.latest_event = Some(event)]
    ELSE [poll_match(s, event) EXCEPT !.latest_event = Some(event)]

\* InputManager::poll
poll(s, event) == [poll_match(s, event) EXCEPT !.latest_event = Some(event)]

\* InputManager::take_latest_event: the state it leaves
take_latest_event(s) == [s EXCEPT !.latest_event = None]

\* is_key_down answering from the last keyboard transition
is_key_down_last_key(s, key) == s.last_key = Some(<<key, "Pressed">>)

is_key_down(s, key) == key \in s.keys_down
is_mouse_down(s, button) == button \in s.mouse_buttons_down
cursor_position(s) == s.cursor_position
scroll_delta(s) == s.scroll_delta
last_key(s) == s.last_key
last_mouse_button(s) == s.last_mouse_button

\* InputManager::is_button_pressed
is_button_pressed(s, id, button) ==
    id \in DOMAIN s.gamepads /\ button \in s.gamepads[id].buttons_down

\* button_value with unwrap_or(1.0)
button_value_or_one(s, id, button) ==
    IF id \in DOMAIN s.gamepads /\ button \in DOMAIN s.gamepads[id].button_values
    THEN s.gamepads[id].button_values[button]
    ELSE Fin(One)

\* InputManager::button_value
button_value(s, id, button) ==
    IF id \in DOMAIN s.gamepads /\ button \in DOMAIN s.gamepads[id].button_values
    THEN s.gamepads[id].button_values[button]
    ELSE Zero

\* InputManager::axis_value
axis_value(s, id, axis) ==
    IF id \in DOMAIN s.gamepads /\ axis \in DOMAIN s.gamepads[id].axes
    THEN s.gamepads[id].axes[axis]
    ELSE Zero

\* InputManager::was_button_just_pressed
was_button_just_pressed(s, id, button) ==
    <<id, button>> \in s.gamepad_frame.just_pressed

\* InputManager::was_button_just_released
was_button_just_released(s, id, button) ==
    <<id, button>> \in s.gamepad_frame.just_released

\* a snapshot that refers to the aggregator's own map instead of a copy
gamepads_snapshot_live(s) == [shares_inner |-> TRUE, gamepads |-> s.gamepads]

\* InputManager::gamepads_snapshot: inner.gamepads.clone() is a deep copy
\* the snapshot owns (String, HashSet and HashMap fields, derived Clone)
gamepads_snapshot(s) == [shares_inner |-> FALSE, gamepads |-> s.gamepads]

----------------------------------------------------------------------------
(* History: what the backend has delivered, for stating the properties *)

HistInit ==
    [op |-> "new", drained |-> << >>, batch |-> << >>,
     polled |-> << >>, reset_at |-> 0]

\* the history after an update_gamepads call that found `events` pending
HistDrain(h, events) ==
    [h EXCEPT !.op = "update_gamepads", !.drained = @ \o events, !.batch = events]

\* the gamepad map a snapshot shows to its holder
SnapshotView(sn, s) == IF sn.shares_inner THEN s.gamepads ELSE sn.gamepads

----------------------------------------------------------------------------
(* The input aggregator on its own: an InputManager, the gamepad backend   *)
(* that feeds it and a caller that polls window events into it             *)

\* the sizes a window can have: a minimised one and two proper ones
WindowSizes == {<<0, 0>>, <<8, 6>>, <<4, 0>>, <<4, 3>>}

\* Durations are counted in tenths of a second, so that Duration::as_secs_f64
\* gives the f64 whose value in tenths is the count
as_secs_f64(d) == Fin(d)

\* the placeholder for the fields of a State while App.state is None
NoConfig ==
    [format |-> "-", width |-> 0, height |-> 0,
     present_mode |-> "-", alpha_mode |-> "-"]

\* App::new: no State yet, elapsed is Duration::default(); on wasm32 the
\* event-loop proxy is held.
\*   state, config, is_surface_configured: App.state and the State's fields
\*   surface: the configuration the swapchain was last configured with
\*   window_size: what window.inner_size() returns
\*   in_flight: the spawned State::new has not delivered its State yet
\*   exit, exited, panicked: exit() was requested; the exiting callback has
\*     run; a handler has panicked
\*   handler, calls, dt, render_result: the handler that ran last, the calls
\*     it made, the dt it passed to update and the result of its render closure
\*   since_redraw, interval: the time since the Instant::now() of the redraw
\*     handled before, now and at the Instant::now() of the handler that ran last
\*   inited, exiting_calls: the hosted init has been invoked; how often the
\*     hosted exiting has been invoked
\*   negotiation_failed: a State::new has returned an error
\*   run: what run() has done: "running" inside run_app, "Ok" or "Err" once
\*     it has returned, "panicked" once a panic has unwound through it; on
\*     wasm32 run returns Ok(()) as soon as spawn_app has started the loop
App_new(target) ==
    [target |-> target,
     proxy |-> target = "wasm32",
     state |-> "None",
     config |-> NoConfig,
     surface |-> None,
     is_surface_configured |-> FALSE,
     elapsed |-> 0,
     window_size |-> <<8, 6>>,
     in_flight |-> FALSE,
     panicked |-> FALSE,
     exit |-> FALSE,
     exited |-> FALSE,
     delivered |-> 0,
     handler |-> "new",
     calls |-> << >>,
     dt |-> None,
     render_result |-> None,
     since_redraw |-> None,
     interval |-> None,
     inited |-> FALSE,
     exiting_calls |-> 0,
     negotiation_failed |-> FALSE,
     run |-> IF target = "wasm32" THEN "Ok" ELSE "running"]

AppInit == App_new("native")

\* the callers that hold a clone of the InputManager
Threads == {1, 2}
NoThread == 0

\* what the mutex guards, as a caller holding the guard sees it: InputInner
\* without the queue of the backend, which fills on its own
Visible(s) == [s EXCEPT !.gilrs = << >>]

\* InputManager::default: Arc::new(Mutex::new(InputInner::new())), unlocked.
\*   lock: the thread holding the guard, or NoThread
\*   pc, op: where each caller is ("idle", "waiting" in lock(), "locked"
\*     with the guard just taken, "midway" in the body) and in which operation
\*   acquired: how often the operation a caller is in has taken the lock
\*   committed: the guarded state when the last operation returned
\*   torn: a query has read a guarded state no operation returned with
ConcInit ==
    [lock |-> NoThread,
     pc |-> [t \in Threads |-> "idle"],
     op |-> [t \in Threads |-> <<"none">>],
     acquired |-> [t \in Threads |-> 0],
     committed |-> Visible(InputInner_new({})),
     torn |-> FALSE]

InitInput ==
    /\ \E seed \in SeedChoices : inner = InputInner_new(seed)
    /\ snap = None
    /\ hist = HistInit
    /\ produced = 0
    /\ app = AppInit
    /\ conc = ConcInit

\* the backend queues an event of the set E (at most max stimuli in a run)
GilrsEvent(E, max) ==
    /\ produced < max
    /\ \E ev \in E : inner' = [inner EXCEPT !.gilrs.events = Append(@, ev)]
    /\ produced' = produced + 1
    /\ hist' = [hist EXCEPT !.op = "gilrs_event"]
    /\ UNCHANGED <<conc, snap, app>>

UpdateGamepads ==
    /\ inner' = update_gamepads(inner)
    /\ hist' = HistDrain(hist, inner.gilrs.events)
    /\ UNCHANGED <<conc, snap, produced, app>>

ResetFrameDeltas ==
    /\ inner' = reset_frame_deltas(inner)
    /\ hist' = [hist EXCEPT !.op = "reset_frame_deltas",
                            !.reset_at = Len(hist.polled)]
    /\ UNCHANGED <<conc, snap, produced, app>>

\* a caller polls a window event of the set E (at most max stimuli in a run)
Poll(E, max) ==
    /\ produced < max
    /\ \E event \in E :
          /\ inner' = poll(inner, event)
          /\ hist' = [hist EXCEPT !.op = "poll", !.polled = Append(@, event)]
    /\ produced' = produced + 1
    /\ UNCHANGED <<conc, snap, app>>

TakeLatestEvent ==
    /\ inner.latest_event # None
    /\ inner' = take_latest_event(inner)
    /\ hist' = [hist EXCEPT !.op = "take_latest_event"]
    /\ UNCHANGED <<conc, snap, produced, app>>

\* the hosted application takes a snapshot and keeps it
GamepadsSnapshot ==
    /\ snap' = Some(gamepads_snapshot(inner))
    /\ hist' = [hist EXCEPT !.op = "gamepads_snapshot"]
    /\ UNCHANGED <<conc, inner, produced, app>>

\* the holder of a snapshot removes an entry from it (its fields are pub)
MutateSnapshot ==
    /\ snap # None
    /\ \E id \in DOMAIN SnapshotView(snap[1], inner) :
          LET m == SnapshotView(snap[1], inner)
              m2 == [i \in DOMAIN m \ {id} |-> m[i]]
          IN IF snap[1].shares_inner
             THEN inner' = [inner EXCEPT !.gamepads = m2] /\ snap' = snap
             ELSE snap' = Some([snap[1] EXCEPT !.gamepads = m2]) /\ inner' = inner
    /\ hist' = [hist EXCEPT !.op = "mutate_snapshot"]
    /\ UNCHANGED <<conc, produced, app>>

NextInput ==
    \/ GilrsEvent(CoreEvents, MaxInputs)
    \/ UpdateGamepads
    \/ ResetFrameDeltas
    \/ Poll(FramePollEvents, MaxInputs)

\* the aggregator fed by the gamepad backend and by a few window events
Spec == InitInput /\ [][NextInput]_vars

NextPoll ==
    \/ Poll(PollEvents, MaxPolls)
    \/ ResetFrameDeltas
    \/ TakeLatestEvent

\* the aggregator fed by window events only
SpecPoll == InitInput /\ [][NextPoll]_vars

NextAnalog ==
    \/ GilrsEvent(AnalogEvents, MaxAnalogEvents)
    \/ UpdateGamepads
    \/ GamepadsSnapshot

\* the aggregator fed by button-changed and axis-changed events of any value
SpecAnalog == InitInput /\ [][NextAnalog]_vars

NextSnapshot ==
    \/ GilrsEvent(CoreEvents, MaxInputs)
    \/ UpdateGamepads
    \/ ResetFrameDeltas
    \/ Poll(FramePollEvents, MaxInputs)
    \/ GamepadsSnapshot
    \/ MutateSnapshot

\* the aggregator and a hosted application that holds a gamepad snapshot
SpecSnapshot == InitInput /\ [][NextSnapshot]_vars

----------------------------------------------------------------------------
(* The application runtime: State and App's ApplicationHandler callbacks.  *)
(* app.calls is the sequence of calls the handler that ran last has made   *)
(* (hosted callbacks, InputManager operations, surface and window calls).  *)

\* the outcomes of surface.get_current_texture()
AcquireResults == {"Ok", "Lost", "Outdated", "Timeout", "OutOfMemory"}

\* what surface.get_capabilities(&adapter) can report
SurfaceCapabilities ==
    {[formats |-> <<"Bgra8Unorm", "Bgra8UnormSrgb">>,
      present_modes |-> <<"Fifo", "Mailbox">>,
      alpha_modes |-> <<"Opaque">>],
     [formats |-> <<"Rgba8Unorm">>,
      present_modes |-> <<"Mailbox", "Fifo">>,
      alpha_modes |-> <<"Auto", "Opaque">>]}

is_srgb(f) == f \in {"Bgra8UnormSrgb", "Rgba8UnormSrgb"}

\* formats.iter().find(|f| f.is_srgb()).copied().unwrap_or(formats[0])
surface_format(formats) ==
    LET srgb == {i \in 1..Len(formats) : is_srgb(formats[i])}
    IN IF srgb = {} THEN formats[1]
       ELSE formats[CHOOSE i \in srgb : \A j \in srgb : i <= j]

\* how long the wait before a window event is handled, and how long the
\* update and render of a frame take (tenths of a second)
IdleTimes == {0, 1}
FrameCosts == {1, 2}

\* the window events the runtime specification delivers
AppWindowEvents ==
    {RedrawRequested, CloseRequested, Focused,
     KeyboardInput("Escape", "Pressed"),
     MouseWheelLine(Fin(One), Fin(-One))}
    \cup {Resized(Fin(sz[1]), Fin(sz[2])) : sz \in WindowSizes}

\* window events of every kind the input predicate lets through, and of
\* the kinds it does not
AppInputEvents ==
    {KeyboardInput("KeyA", "Pressed"), CursorMoved(Fin(3), Fin(5)),
     MouseInput("Left", "Pressed"), MouseWheelPixel(Fin(5), Fin(0)),
     ModifiersChanged,
     RedrawRequested, CloseRequested, Focused, Resized(Fin(4), Fin(3))}

Call(a, name) == [a EXCEPT !.calls = Append(@, name)]

\* the hosted callbacks (AppBehaviour) as the runtime invokes them
instance_init(a) == [Call(a, "init") EXCEPT !.inited = TRUE]
instance_update(a, dt) == [Call(a, "update") EXCEPT !.dt = Some(dt)]
instance_render(a) == Call(a, "render")
instance_exiting(a) == [Call(a, "exiting") EXCEPT !.exiting_calls = @ + 1]

\* State::new when negotiation succeeds: the fields of the State it returns
State_new(a, caps) ==
    [a EXCEPT !.state = "Some",
              !.surface = None,
              !.config = [format |-> surface_format(caps.formats),
                          width |-> a.window_size[1],
                          height |-> a.window_size[2],
                          present_mode |-> caps.present_modes[1],
                          alpha_mode |-> caps.alpha_modes[1]],
              !.is_surface_configured = FALSE]

\* State::resize with the flag raised before the test of the dimensions
State_resize_ready_first(a, width, height) ==
    IF width > 0 /\ height > 0
    THEN LET c == [a.config EXCEPT !.width = width, !.height = height]
         IN [Call(a, "surface.configure") EXCEPT
               !.config = c, !.surface = Some(c), !.is_surface_configured = TRUE]
    ELSE [a EXCEPT !.is_surface_configured = TRUE]

\* State::resize
State_resize(a, width, height) ==
    IF width > 0 /\ height > 0
    THEN LET c == [a.config EXCEPT !.width = width, !.height = height]
         IN [Call(a, "surface.configure") EXCEPT
               !.config = c,
               !.surface = Some(c),
               !.is_surface_configured = TRUE]
    ELSE a

\* the render closure without the test of is_surface_configured
render_closure_unguarded(a0, acquired) ==
    LET a == Call(a0, "request_redraw")
    IN IF acquired # "Ok"
       THEN [Call(a, "get_current_texture") EXCEPT !.render_result = Some(acquired)]
       ELSE [Call(instance_render(Call(a, "get_current_texture")), "present")
                EXCEPT !.render_result = Some("Ok")]

\* the render closure of the RedrawRequested arm: the runtime after it, with
\* the closure's result in render_result
render_closure(a0, acquired) ==
    LET a == Call(a0, "request_redraw")
    IN IF ~a.is_surface_configured
       THEN [a EXCEPT !.render_result = Some("Ok")]
       ELSE IF acquired # "Ok"
       THEN [Call(a, "get_current_texture") EXCEPT !.render_result = Some(acquired)]
       ELSE [Call(instance_render(Call(a, "get_current_texture")), "present")
                EXCEPT !.render_result = Some("Ok")]

\* the RedrawRequested arm of App::window_event; cost is what now.elapsed()
\* measures at its end
redraw_requested(a0, acquired, cost) ==
    LET now == [a0 EXCEPT !.interval = a0.since_redraw]
        r == render_closure(instance_update(now, as_secs_f64(now.elapsed)), acquired)
        a == CASE r.render_result = Some("Ok") -> r
               [] r.render_result \in {Some("Lost"), Some("Outdated")} ->
                     State_resize(r, r.window_size[1], r.window_size[2])
               [] OTHER -> Call(r, "log::error")
    IN [a EXCEPT !.elapsed = cost, !.since_redraw = Some(cost)]

\* the match on the event without the CloseRequested arm
window_event_match_no_exit(a, event, acquired, cost) ==
    CASE event.kind = "Resized" -> State_resize(a, event.x.v, event.y.v)
      [] event.kind = "RedrawRequested" -> redraw_requested(a, acquired, cost)
      [] OTHER -> a

\* the match on the event in App::window_event
window_event_match(a, event, acquired, cost) ==
    CASE event.kind = "CloseRequested" -> [Call(a, "exit") EXCEPT !.exit = TRUE]
      [] event.kind = "Resized" -> State_resize(a, event.x.v, event.y.v)
      [] event.kind = "RedrawRequested" -> redraw_requested(a, acquired, cost)
      [] OTHER -> a

\* App::window_event without the return on an absent State
window_event_no_return(a, s, event, acquired, cost) ==
    IF is_input_event(event)
    THEN [app |-> window_event_match(Call(a, "poll"), event, acquired, cost),
          inner |-> poll(s, event)]
    ELSE [app |-> window_event_match(a, event, acquired, cost), inner |-> s]

\* App::window_event: the runtime and the aggregator after the handler
window_event(a, s, event, acquired, cost) ==
    IF a.state = "None"
    THEN [app |-> a, inner |-> s]
    ELSE IF is_input_event(event)
    THEN [app |-> window_event_match(Call(a, "poll"), event, acquired, cost),
          inner |-> poll(s, event)]
    ELSE [app |-> window_event_match(a, event, acquired, cost), inner |-> s]

\* the handler that starts: its name, and nothing done yet
Enter(a, name) ==
    [a EXCEPT !.handler = name, !.calls = << >>, !.dt = None,
              !.render_result = None, !.interval = None]

\* wall-clock time d passes
Elapse(a, d) ==
    [a EXCEPT !.since_redraw = IF @ = None THEN None ELSE Some(@[1] + d)]

InitApp ==
    /\ inner = InputInner_new({})
    /\ snap = None
    /\ hist = HistInit
    /\ produced = 0
    /\ \E target \in {"native", "wasm32"} : app = App_new(target)
    /\ conc = ConcInit

Alive == ~app.panicked /\ ~app.exited

\* App::resumed, not(target_arch = "wasm32"), State::new succeeding: the
\* State is built (with its own InputManager), init runs, the State is stored
ResumedNative ==
    /\ Alive /\ app.target = "native"
    /\ \E caps \in SurfaceCapabilities :
          app' = instance_init(State_new(Enter(app, "resumed"), caps))
    /\ \E seed \in SeedChoices : inner' = InputInner_new(seed)
    /\ hist' = HistInit
    /\ UNCHANGED <<conc, snap, produced>>

\* App::resumed, not(target_arch = "wasm32"), State::new failing: unwrap panics
ResumedNativeFails ==
    /\ Alive /\ app.target = "native"
    /\ app' = [Enter(app, "resumed") EXCEPT
                 !.negotiation_failed = TRUE, !.panicked = TRUE, !.run = "panicked"]
    /\ UNCHANGED <<conc, inner, snap, hist, produced>>

\* App::resumed, target_arch = "wasm32": the first call takes the proxy and
\* spawns State::new, later calls do nothing
ResumedWasm ==
    /\ Alive /\ app.target = "wasm32"
    /\ app' = [Enter(app, "resumed") EXCEPT
                 !.proxy = FALSE,
                 !.in_flight = IF app.proxy THEN TRUE ELSE @]
    /\ UNCHANGED <<conc, inner, snap, hist, produced>>

\* the future App::resumed spawned on wasm32, State::new failing: expect
\* panics in the spawned task, no State is ever sent
SpawnedNegotiationFails ==
    /\ Alive /\ app.target = "wasm32" /\ app.in_flight
    /\ app' = [Enter(app, "spawn_local") EXCEPT
                 !.in_flight = FALSE,
                 !.negotiation_failed = TRUE, !.panicked = TRUE]
    /\ UNCHANGED <<conc, inner, snap, hist, produced>>

\* App::user_event, target_arch = "wasm32": the State the spawned future
\* has sent arrives
UserEvent ==
    /\ Alive /\ app.target = "wasm32" /\ app.in_flight
    /\ \E caps \in SurfaceCapabilities :
          LET a1 == Call([State_new(Enter(app, "user_event"), caps)
                             EXCEPT !.in_flight = FALSE],
                         "request_redraw")
              a2 == State_resize(a1, a1.window_size[1], a1.window_size[2])
          IN app' = instance_init(a2)
    /\ \E seed \in SeedChoices : inner' = InputInner_new(seed)
    /\ hist' = HistInit
    /\ UNCHANGED <<conc, snap, produced>>

\* the outcomes of get_current_texture and the costs of a frame that matter
\* to the handler of the event: one of each where the handler does not reach
\* get_current_texture, or the RedrawRequested arm
AcquireOutcomes(a, event) ==
    IF a.state = "Some" /\ a.is_surface_configured /\ event.kind = "RedrawRequested"
    THEN AcquireResults ELSE {"Ok"}

CostsOf(a, event) ==
    IF a.state = "Some" /\ event.kind = "RedrawRequested"
    THEN FrameCosts ELSE {CHOOSE c \in FrameCosts : TRUE}

\* the platform delivers a window event after an idle wait; a Resized event
\* tells the new size of the window
WindowEvent(E) ==
    /\ Alive /\ app.delivered < MaxWindowEvents
    /\ \E event \in E, idle \in IdleTimes :
       \E acquired \in AcquireOutcomes(app, event), cost \in CostsOf(app, event) :
          LET a0 == [Elapse(Enter(app, event.kind), idle) EXCEPT
                       !.delivered = @ + 1,
                       !.window_size = IF event.kind = "Resized"
                                       THEN <<event.x.v, event.y.v>> ELSE @]
              r == window_event(a0, inner, event, acquired, cost)
          IN app' = r.app /\ inner' = r.inner
    /\ hist' = [hist EXCEPT !.op = "window_event"]
    /\ UNCHANGED <<conc, snap, produced>>

\* App::exiting: the event loop calls it once exit() was requested, and
\* delivers nothing after it
Exiting ==
    /\ Alive /\ app.exit
    /\ app' = [instance_exiting(Enter(app, "exiting")) EXCEPT
                 !.exited = TRUE, !.run = "Ok"]
    /\ UNCHANGED <<conc, inner, snap, hist, produced>>

NextApp ==
    \/ ResumedNative
    \/ ResumedNativeFails
    \/ ResumedWasm
    \/ SpawnedNegotiationFails
    \/ UserEvent
    \/ WindowEvent(AppWindowEvents)
    \/ Exiting

\* the runtime driven by the platform's signals
SpecApp == InitApp /\ [][NextApp]_vars

\* the event loop runs App::exiting once exit() was requested
SpecAppLive == InitApp /\ [][NextApp]_vars /\ WF_vars(Exiting)

NextAppInput ==
    \/ ResumedNative
    \/ ResumedNativeFails
    \/ ResumedWasm
    \/ SpawnedNegotiationFails
    \/ UserEvent
    \/ WindowEvent(AppInputEvents)
    \/ Exiting

\* the runtime receiving window events of every kind
SpecAppInput == InitApp /\ [][NextAppInput]_vars

----------------------------------------------------------------------------
(* InputManager under concurrent callers: every operation is lock(), its   *)
(* body on the guard, and the drop of the guard when it returns.           *)

\* the operations the callers invoke
LockOps ==
    {<<"poll", KeyboardInput("KeyA", "Pressed")>>,
     <<"poll", KeyboardInput("KeyA", "Released")>>,
     <<"reset_frame_deltas">>, <<"update_gamepads">>, <<"is_key_down">>}

\* the events the backend queues meanwhile
LockGilrsEvents == {ButtonPressed(1, "South"), ButtonReleased(1, "South")}

\* Mutex::lock returning without the mutex being free
can_lock_unguarded(c) == TRUE

\* Mutex::lock returns once the mutex is free
can_lock(c) == c.lock = NoThread

\* the first writes of an operation's body: poll's write of last_key,
\* reset_frame_deltas' write of scroll_delta, pump_gilrs_events' two clears
\* and the first turn of its loop; a query has read and written nothing
body_first(s, op) ==
    CASE op[1] = "poll" ->
            IF op[2].kind = "KeyboardInput" /\ op[2].code \in KeyCodes
            THEN [s EXCEPT !.last_key = Some(<<op[2].code, op[2].state>>)]
            ELSE s
      [] op[1] = "reset_frame_deltas" -> [s EXCEPT !.scroll_delta = <<Zero, Zero>>]
      [] op[1] = "update_gamepads" ->
            LET c == [s EXCEPT !.gamepad_frame.just_pressed = {},
                               !.gamepad_frame.just_released = {}]
            IN IF c.gilrs.events = << >> THEN c
               ELSE HandleEvent(gilrs_pop(c), Head(c.gilrs.events))
      [] OTHER -> s

\* the rest of the body, up to the return
body_rest(s, op) ==
    CASE op[1] = "poll" -> poll(s, op[2])
      [] op[1] = "reset_frame_deltas" -> reset_frame_deltas(s)
      [] op[1] = "update_gamepads" -> DrainEvents(s)
      [] OTHER -> s

\* the callers start after the backend has queued a first event
InitLock ==
    /\ inner = [InputInner_new({}) EXCEPT
                  !.gilrs.events = <<ButtonPressed(1, "South")>>]
    /\ snap = None
    /\ hist = HistInit
    /\ produced = 0
    /\ app = AppInit
    /\ conc = ConcInit

\* caller t invokes an operation: it enters lock()
CallOp(t) ==
    /\ conc.pc[t] = "idle"
    /\ \E op \in LockOps :
          conc' = [conc EXCEPT !.pc[t] = "waiting", !.op[t] = op, !.acquired[t] = 0]
    /\ UNCHANGED <<inner, snap, hist, produced, app>>

\* lock() returns the guard to caller t
Lock(t) ==
    /\ conc.pc[t] = "waiting"
    /\ can_lock(conc)
    /\ conc' = [conc EXCEPT !.lock = t, !.pc[t] = "locked", !.acquired[t] = @ + 1]
    /\ UNCHANGED <<inner, snap, hist, produced, app>>

\* caller t, holding the guard, runs the first part of the body; a query
\* reads the guarded state here
BodyFirst(t) ==
    /\ conc.pc[t] = "locked"
    /\ inner' = body_first(inner, conc.op[t])
    /\ conc' = [conc EXCEPT
                  !.pc[t] = "midway",
                  !.torn = @ \/ (conc.op[t][1] = "is_key_down"
                                  /\ Visible(inner) # conc.committed)]
    /\ UNCHANGED <<snap, hist, produced, app>>

\* caller t runs the rest of the body and returns: the guard is dropped
Return(t) ==
    /\ conc.pc[t] = "midway"
    /\ inner' = body_rest(inner, conc.op[t])
    /\ conc' = [conc EXCEPT
                  !.pc[t] = "idle",
                  !.op[t] = <<"none">>,
                  !.acquired[t] = 0,
                  !.lock = IF @ = t THEN NoThread ELSE @,
                  !.committed = Visible(inner')]
    /\ UNCHANGED <<snap, hist, produced, app>>

NextLock ==
    \/ GilrsEvent(LockGilrsEvents, MaxLockEvents)
    \/ \E t \in Threads : CallOp(t)
    \/ \E t \in Threads : Lock(t)
    \/ \E t \in Threads : BodyFirst(t)
    \/ \E t \in Threads : Return(t)

\* callers that run when they can, and a mutex that is eventually fair
\* (parking_lot::Mutex): a caller that finds it free again and again gets it
SpecLock ==
    /\ InitLock /\ [][NextLock]_vars
    /\ \A t \in Threads :
          WF_vars(BodyFirst(t)) /\ WF_vars(Return(t)) /\ SF_vars(Lock(t))

----------------------------------------------------------------------------
(* What the history says, independently of the aggregator's state *)

\* the positions of `events` holding a press or a release of (id, button)
EdgePositions(events, id, button) ==
    {i \in DOMAIN events :
        events[i] \in {ButtonPressed(id, button), ButtonReleased(id, button)}}

Presses(id, button) ==
    Cardinality({i \in DOMAIN hist.drained :
                    hist.drained[i] = ButtonPressed(id, button)})

Releases(id, button) ==
    Cardinality({i \in DOMAIN hist.drained :
                    hist.drained[i] = ButtonReleased(id, button)})

\* presses minus releases is odd
NetParityOdd(id, button) == (Presses(id, button) - Releases(id, button)) % 2 = 1

\* the presses and releases of (id, button) drained so far alternate,
\* beginning with a press
Alternating(id, button) ==
    LET I == EdgePositions(hist.drained, id, button)
    IN \A i \in I :
          LET before == {j \in I : j < i}
          IN IF before = {}
             THEN hist.drained[i].kind = "ButtonPressed"
             ELSE LET j == CHOOSE m \in before : \A n \in before : n <= m
                  IN hist.drained[i].kind # hist.drained[j].kind

PressedIn(events, id, button) ==
    \E i \in DOMAIN events : events[i] = ButtonPressed(id, button)

ReleasedIn(events, id, button) ==
    \E i \in DOMAIN events : events[i] = ButtonReleased(id, button)

RecognisedKinds ==
    {"Connected", "Disconnected", "ButtonPressed", "ButtonReleased",
     "ButtonChanged", "AxisChanged"}

\* x is a finite value between lo and hi (in tenths)
InRange(x, lo, hi) == x.k = "fin" /\ lo <= x.v /\ x.v <= hi

----------------------------------------------------------------------------
(* C2 *)

\* C2: was_button_just_pressed(id, button) is true exactly when the most
\* recent update_gamepads call drained a button-pressed event for (id, button):
\* it is true only if that call drained one, and false after every later call
\* that drains none.
C2_JustPressedOnlyInDrainingCall ==
    \A id \in GamepadIds, b \in Buttons :
        was_button_just_pressed(inner, id, b) <=> PressedIn(hist.batch, id, b)

\* a press was drained by an earlier call, the last call drained nothing:
\* the button is still held and no longer just pressed
C2_Witness ==
    /\ hist.op = "update_gamepads"
    /\ hist.batch = << >>
    /\ Presses(1, "South") = 1
    /\ is_button_pressed(inner, 1, "South")
    /\ ~was_button_just_pressed(inner, 1, "South")

----------------------------------------------------------------------------
(* C3 *)

\* C3 as stated: after the events are drained, a button is in the device's
\* held set if and only if its presses minus its releases is odd, for any
\* sequence of button-pressed and button-released events.
C3_HeldIsNetParity ==
    \A id \in GamepadIds, b \in Buttons :
        is_button_pressed(inner, id, b) <=> NetParityOdd(id, b)

\* C3 amended: the held set equals the set of buttons with odd
\* (presses - releases) as long as each button's presses and releases
\* alternate, beginning with a press.
C3_HeldIsNetParityWhenAlternating ==
    \A id \in GamepadIds, b \in Buttons :
        Alternating(id, b) =>
            (is_button_pressed(inner, id, b) <=> NetParityOdd(id, b))

\* one button pressed and released again, another one pressed and held
C3_Witness ==
    \E id \in GamepadIds :
        /\ Presses(id, "South") = 1 /\ Releases(id, "South") = 1
        /\ Alternating(id, "South")
        /\ ~is_button_pressed(inner, id, "South")

----------------------------------------------------------------------------
(* C4 *)

KeyEdgeCleared == inner.last_key # None /\ inner'.last_key = None
MouseEdgeCleared == inner.last_mouse_button # None /\ inner'.last_mouse_button = None
GamepadEdgeCleared ==
    \/ inner.gamepad_frame.just_pressed \ inner'.gamepad_frame.just_pressed # {}
    \/ inner.gamepad_frame.just_released \ inner'.gamepad_frame.just_released # {}

\* an edge of before the step that the step has left in place
KeyEdgeKept == inner.last_key # None /\ inner'.last_key = inner.last_key
MouseEdgeKept ==
    inner.last_mouse_button # None /\ inner'.last_mouse_button = inner.last_mouse_button
GamepadEdgeKept ==
    \/ \E e \in inner.gamepad_frame.just_pressed \cap inner'.gamepad_frame.just_pressed :
          ~(hist'.op = "update_gamepads" /\ PressedIn(hist'.batch, e[1], e[2]))
    \/ \E e \in inner.gamepad_frame.just_released \cap inner'.gamepad_frame.just_released :
          ~(hist'.op = "update_gamepads" /\ ReleasedIn(hist'.batch, e[1], e[2]))

\* C4 as stated: the four frame edges (last key, last mouse button, gamepad
\* just-pressed, gamepad just-released) are cleared together, never partially:
\* no operation clears some of them and leaves others of the same frame.
C4_EdgesClearedTogether ==
    [][(KeyEdgeCleared \/ MouseEdgeCleared \/ GamepadEdgeCleared)
          => ~(KeyEdgeKept \/ MouseEdgeKept \/ GamepadEdgeKept)]_vars

\* C4 amended: the frame edges are cleared in two pairs, each pair never
\* partially: reset_frame_deltas clears the last key and the last mouse button
\* together and leaves the gamepad just-pressed and just-released sets as they
\* are; update_gamepads clears both gamepad sets together and leaves the last
\* key and the last mouse button as they are.
C4_EdgesClearedInPairs ==
    [][/\ (KeyEdgeCleared \/ MouseEdgeCleared) =>
             /\ inner'.last_key = None
             /\ inner'.last_mouse_button = None
             /\ inner'.gamepad_frame = inner.gamepad_frame
       /\ GamepadEdgeCleared =>
             /\ ~GamepadEdgeKept
             /\ inner'.last_key = inner.last_key
             /\ inner'.last_mouse_button = inner.last_mouse_button]_vars

\* after a key press and a mouse press were polled and a gamepad press was
\* drained, reset_frame_deltas has cleared the first two and kept the third
C4_Witness ==
    /\ hist.op = "reset_frame_deltas"
    /\ inner.keys_down # {}
    /\ inner.last_key = None
    /\ inner.last_mouse_button = None
    /\ inner.gamepad_frame.just_pressed # {}

----------------------------------------------------------------------------
(* C5 *)

\* C5: immediately after any call to reset_frame_deltas, whatever was polled
\* before it, scroll_delta() is (0.0, 0.0) and last_key() and
\* last_mouse_button() are absent.
C5_ResetClearsFrameDeltas ==
    hist.op = "reset_frame_deltas" =>
        /\ scroll_delta(inner) = <<Zero, Zero>>
        /\ last_key(inner) = None
        /\ last_mouse_button(inner) = None

\* reset_frame_deltas has run after a key press, a mouse press and, last, a
\* wheel event were polled
C5_Witness ==
    /\ hist.op = "reset_frame_deltas"
    /\ inner.keys_down # {}
    /\ inner.mouse_buttons_down # {}
    /\ inner.latest_event = Some(MouseWheelLine(Fin(One), Fin(-One)))

----------------------------------------------------------------------------
(* C6 *)

\* C6: reset_frame_deltas leaves the held keys, the held mouse buttons, the
\* cursor position and every gamepad entry unchanged, and an update_gamepads
\* call that drains no backend event leaves the held buttons, the analog
\* button values and the axis values of every gamepad entry unchanged.
C6_HeldStatePersists ==
    [][/\ hist'.op = "reset_frame_deltas" =>
             /\ inner'.keys_down = inner.keys_down
             /\ inner'.mouse_buttons_down = inner.mouse_buttons_down
             /\ inner'.cursor_position = inner.cursor_position
             /\ inner'.gamepads = inner.gamepads
       /\ (hist'.op = "update_gamepads" /\ hist'.batch = << >>) =>
             /\ DOMAIN inner'.gamepads = DOMAIN inner.gamepads
             /\ \A id \in DOMAIN inner.gamepads :
                   /\ inner'.gamepads[id].buttons_down = inner.gamepads[id].buttons_down
                   /\ inner'.gamepads[id].button_values = inner.gamepads[id].button_values
                   /\ inner'.gamepads[id].axes = inner.gamepads[id].axes]_vars

\* reset_frame_deltas has run while a key and a gamepad button are held
C6_Witness ==
    /\ hist.op = "reset_frame_deltas"
    /\ is_key_down(inner, "Escape")
    /\ \E id \in GamepadIds : is_button_pressed(inner, id, "Start")

----------------------------------------------------------------------------
(* C7 *)

\* the batch of the step is made of disconnect events only, one of them for id
OnlyDisconnects(events, id) ==
    /\ \A i \in DOMAIN events : events[i].kind = "Disconnected"
    /\ \E i \in DOMAIN events : events[i].id = id

\* the entries of the gamepad map only grow in number, and a call that drains
\* nothing but disconnect events changes is_connected (to false) and nothing
\* else of the entries it names
GamepadEntriesKept ==
    /\ DOMAIN inner.gamepads \subseteq DOMAIN inner'.gamepads
    /\ \A id \in DOMAIN inner.gamepads :
          (hist'.op = "update_gamepads" /\ OnlyDisconnects(hist'.batch, id)) =>
              inner'.gamepads[id] =
                  [inner.gamepads[id] EXCEPT !.info.is_connected = FALSE]

\* C7 as stated: an entry is created on the first observed backend event of
\* any kind for a device id; entries are never removed; a disconnect changes
\* only is_connected, to false.
C7_EntryOnAnyEvent ==
    [][/\ hist'.op = "update_gamepads" =>
             \A i \in DOMAIN hist'.batch : hist'.batch[i].id \in DOMAIN inner'.gamepads
       /\ GamepadEntriesKept]_vars

\* C7 amended: an entry is created on the first observed backend event of a
\* kind the aggregator handles (connected, disconnected, button-pressed,
\* button-released, button-changed, axis-changed) for a device id, an event of
\* any other kind creating none; entries are never removed; a disconnect
\* changes only is_connected, to false.
C7_EntryOnRecognisedEvent ==
    [][/\ hist'.op = "update_gamepads" =>
             /\ \A i \in DOMAIN hist'.batch :
                   hist'.batch[i].kind \in RecognisedKinds =>
                       hist'.batch[i].id \in DOMAIN inner'.gamepads
             /\ (\A i \in DOMAIN hist'.batch :
                    hist'.batch[i].kind \notin RecognisedKinds) =>
                   inner'.gamepads = inner.gamepads
       /\ GamepadEntriesKept]_vars

\* a device whose axis value was recorded has then disconnected
C7_Witness ==
    \E id \in GamepadIds :
        /\ hist.op = "update_gamepads"
        /\ hist.batch = <<Disconnected(id)>>
        /\ id \in DOMAIN inner.gamepads
        /\ ~inner.gamepads[id].info.is_connected
        /\ axis_value(inner, id, "LeftStickX") = Fin(One)

----------------------------------------------------------------------------
(* C8 *)

\* what the axis normalization is to give for the input x
NormalizedAxis(x) ==
    IF x.k # "fin" THEN Zero
    ELSE IF x.v > One THEN Fin(One)
    ELSE IF x.v < -One THEN Fin(-One)
    ELSE x

\* the value of the last axis-changed event drained for (id, axis), if any
LastAxisInput(id, axis) ==
    LET I == {i \in DOMAIN hist.drained :
                 /\ hist.drained[i].kind = "AxisChanged"
                 /\ hist.drained[i].id = id
                 /\ hist.drained[i].axis = axis}
    IN IF I = {} THEN None
       ELSE Some(hist.drained[CHOOSE m \in I : \A n \in I : n <= m].value)

\* C8: the axis value stored for an axis-changed input is 0.0 for a non-finite
\* input, the input itself within [-1, 1], 1.0 above and -1.0 below; every
\* axis value returned by axis_value or held in a snapshot lies in [-1, 1].
C8_AxisNormalized ==
    /\ \A id \in GamepadIds, a \in Axes :
          /\ InRange(axis_value(inner, id, a), -One, One)
          /\ LastAxisInput(id, a) # None =>
                axis_value(inner, id, a) = NormalizedAxis(LastAxisInput(id, a)[1])
    /\ snap # None =>
          \A id \in DOMAIN SnapshotView(snap[1], inner) :
              \A a \in DOMAIN SnapshotView(snap[1], inner)[id].axes :
                  InRange(SnapshotView(snap[1], inner)[id].axes[a], -One, One)

\* a NaN and an input above 1.0 have been stored, as 0.0 and 1.0, and are in
\* a snapshot
C8_Witness ==
    /\ LastAxisInput(1, "LeftStickX") = Some(NaN)
    /\ LastAxisInput(2, "LeftStickX") = Some(Fin(One + 5))
    /\ axis_value(inner, 1, "LeftStickX") = Zero
    /\ axis_value(inner, 2, "LeftStickX") = Fin(One)
    /\ snap # None
    /\ DOMAIN SnapshotView(snap[1], inner) = {1, 2}

----------------------------------------------------------------------------
(* C9 *)

\* C9: every analog button value stored for a device, whatever the
\* button-changed input (out of range and non-finite values included), lies in
\* [0, 1], as returned by button_value and as held in a snapshot.
C9_ButtonValueInUnitRange ==
    /\ \A id \in GamepadIds, b \in Buttons :
          InRange(button_value(inner, id, b), 0, One)
    /\ snap # None =>
          \A id \in DOMAIN SnapshotView(snap[1], inner) :
              \A b \in DOMAIN SnapshotView(snap[1], inner)[id].button_values :
                  InRange(SnapshotView(snap[1], inner)[id].button_values[b], 0, One)

----------------------------------------------------------------------------
(* C10 *)

\* C10: a snapshot is a value: no update_gamepads, poll or reset_frame_deltas
\* call on the aggregator (nor an event the backend queues) changes what a
\* snapshot taken before shows, and mutating the snapshot does not change the
\* aggregator's state.
C10_SnapshotIsAValue ==
    [][/\ (snap # None /\ hist'.op \in {"update_gamepads", "poll",
                                         "reset_frame_deltas", "gilrs_event"}) =>
             /\ snap' # None
             /\ SnapshotView(snap'[1], inner') = SnapshotView(snap[1], inner)
       /\ hist'.op = "mutate_snapshot" => inner' = inner]_vars

\* the aggregator has drained events since the snapshot was taken, and the
\* snapshot shows the gamepads of before
C10_Witness ==
    /\ snap # None
    /\ hist.op = "update_gamepads"
    /\ hist.batch # << >>
    /\ SnapshotView(snap[1], inner) # inner.gamepads
    /\ DOMAIN SnapshotView(snap[1], inner) # {}

----------------------------------------------------------------------------
(* C1 *)

\* the calls of a frame step the fixed order is about
FrameCalls ==
    {"update_gamepads", "update", "get_current_texture", "render", "present",
     "reset_frame_deltas"}

IsFrameCall(c) == c \in FrameCalls

\* C1: every frame step the runtime executes on a redraw request while
\* running makes its calls in the order update_gamepads, hosted update,
\* surface acquire, hosted render, present, reset_frame_deltas (the middle
\* three as far as the frame gets), with update_gamepads exactly once before
\* the hosted update and reset_frame_deltas exactly once at the end.
C1_FrameStepOrder ==
    (app.handler = "RedrawRequested" /\ app.state = "Some") =>
        LET c == SelectSeq(app.calls, IsFrameCall)
        IN \/ c = <<"update_gamepads", "update", "get_current_texture",
                    "render", "present", "reset_frame_deltas">>
           \/ c = <<"update_gamepads", "update", "get_current_texture",
                    "reset_frame_deltas">>
           \/ c = <<"update_gamepads", "update", "reset_frame_deltas">>

(* C11 *)

\* the handler that ran in this step is window_event for a Resized event,
\* with a State present: it forwarded the size to State::resize
ResizedStep == app.state = "Some" /\ app'.handler = "Resized"

DegenerateSize(sz) == sz[1] = 0 \/ sz[2] = 0

\* C11: State::resize (configure) with width = 0 or height = 0 leaves the
\* stored configuration and the swapchain as they were, and after it the
\* surface is not ready (is_surface_configured is false), whatever the
\* flag was before.
C11_DegenerateConfigureNotReady ==
    [][(ResizedStep /\ DegenerateSize(app'.window_size)) =>
          /\ app'.config = app.config
          /\ app'.surface = app.surface
          /\ ~app'.is_surface_configured]_vars

(* C12 *)

Ready(a) == a.state = "Some" /\ a.is_surface_configured

Made(a, name) == \E i \in 1..Len(a.calls) : a.calls[i] = name

\* the handler that ran in this step stored a newly negotiated State
NegotiatedStep == app'.handler \in {"resumed", "user_event"} /\ Made(app', "init")

\* C12: State::resize (configure) with width > 0 and height > 0 stores the
\* width and height, keeps the negotiated format, present mode and alpha
\* mode, configures the swapchain with that configuration and makes the
\* surface ready; and the surface becomes ready only in a step that
\* configures the swapchain with non-degenerate dimensions, so it is not
\* ready from negotiation until the first such call.
C12_ConfigureMakesReady ==
    [][/\ (ResizedStep /\ ~DegenerateSize(app'.window_size)) =>
             /\ app'.config = [app.config EXCEPT !.width = app'.window_size[1],
                                                 !.height = app'.window_size[2]]
             /\ app'.surface = Some(app'.config)
             /\ Made(app', "surface.configure")
             /\ app'.is_surface_configured
       /\ (Ready(app') /\ (~Ready(app) \/ NegotiatedStep)) =>
             /\ Made(app', "surface.configure")
             /\ app'.surface = Some(app'.config)
             /\ ~DegenerateSize(<<app'.config.width, app'.config.height>>)]_vars

\* a non-degenerate Resized event has been handled by a State that
\* negotiated an sRGB format: the surface is ready at the new size
C12_Witness ==
    /\ app.state = "Some" /\ app.handler = "Resized" /\ app.target = "native"
    /\ app.delivered >= 2
    /\ app.is_surface_configured
    /\ app.config = [format |-> "Bgra8UnormSrgb", width |-> 4, height |-> 3,
                     present_mode |-> "Fifo", alpha_mode |-> "Opaque"]
    /\ app.surface = Some(app.config)

(* C13 *)

\* the handler that ran in this step is window_event for a RedrawRequested
\* event, with a State present: it executed a frame step
FrameStep == app.state = "Some" /\ app'.handler = "RedrawRequested"

Count(a, name) == Cardinality({i \in 1..Len(a.calls) : a.calls[i] = name})

\* C13: every frame step invokes the hosted update exactly once, and the
\* hosted render only if the surface was ready and get_current_texture
\* succeeded; when the surface is not configured the frame makes no acquire,
\* render or present, and its render closure returns Ok (nothing is logged,
\* nothing panics).
C13_RenderOnlyWhenReady ==
    [][FrameStep =>
          /\ Count(app', "update") = 1
          /\ Made(app', "render") =>
                /\ Ready(app)
                /\ Made(app', "get_current_texture")
                /\ app'.render_result = Some("Ok")
          /\ ~Ready(app) =>
                /\ ~Made(app', "get_current_texture")
                /\ ~Made(app', "render")
                /\ ~Made(app', "present")
                /\ ~Made(app', "log::error")
                /\ app'.render_result = Some("Ok")
                /\ ~app'.panicked]_vars

\* a frame step has run on a State whose surface was never configured
C13_Witness ==
    /\ app.state = "Some" /\ app.handler = "RedrawRequested"
    /\ app.surface = None /\ ~app.is_surface_configured
    /\ app.calls = <<"update", "request_redraw">>

(* C14 *)

\* the frame step of this step reached get_current_texture and it failed
AcquireFailed == FrameStep /\ app'.render_result \notin {None, Some("Ok")}

\* running: a State is present, no exit was requested, nothing panicked
Running(a) == a.state = "Some" /\ ~a.exit /\ ~a.panicked /\ ~a.exited

\* C14: when get_current_texture fails in a frame step, the hosted render
\* and present are not invoked, the runtime stays as it was (running) and
\* a further redraw is requested; on Lost or Outdated the swapchain is
\* configured again at the current size of the window; on any other error
\* the error is logged and the surface configuration is left unchanged.
C14_AcquireFailureRecovers ==
    [][AcquireFailed =>
          /\ ~Made(app', "render") /\ ~Made(app', "present")
          /\ Made(app', "request_redraw")
          /\ Running(app) => Running(app')
          /\ app'.render_result \in {Some("Lost"), Some("Outdated")} =>
                /\ Count(app', "surface.configure") = 1
                /\ app'.surface = Some([app.config EXCEPT
                                          !.width = app'.window_size[1],
                                          !.height = app'.window_size[2]])
                /\ app'.is_surface_configured
          /\ app'.render_result \notin {Some("Lost"), Some("Outdated")} =>
                /\ Made(app', "log::error")
                /\ ~Made(app', "surface.configure")
                /\ app'.config = app.config
                /\ app'.surface = app.surface
                /\ app'.is_surface_configured = app.is_surface_configured]_vars

(* C15 *)

\* the handler that ran in this step is window_event for a CloseRequested
\* event, with a State present
CloseStep == app.state = "Some" /\ app'.handler = "CloseRequested"

\* C15: a close request handled while running requests the exit of the
\* event loop, and once the exit is requested the hosted exiting hook is
\* invoked (unless a handler panics first); the hook is invoked only after
\* such a request and at most once, however many close requests arrive;
\* and once the hook has run no hosted update or render is invoked: the
\* exiting handler is the last handler that runs.
C15_ExitingOnce ==
    /\ [][/\ CloseStep => (app'.exit /\ Made(app', "exit"))
          /\ Made(app', "exiting") =>
                /\ app.exit /\ app.exiting_calls = 0
                /\ Count(app', "exiting") = 1
                /\ app'.exited
          /\ app'.exiting_calls <= 1
          /\ app'.exited =>
                /\ app'.exiting_calls = 1
                /\ app'.handler = "exiting"
                /\ ~Made(app', "update") /\ ~Made(app', "render")]_vars
    /\ (app.exit /\ ~app.panicked) ~> (app.exited \/ app.panicked)

\* a frame step and a close request were handled, and the exiting hook has
\* run, once
C15_Witness ==
    /\ app.exited /\ app.handler = "exiting" /\ app.exiting_calls = 1
    /\ app.delivered >= 2 /\ app.inited /\ app.elapsed > 0

(* C16 *)

\* this step delivered a window event to App::window_event
WindowEventStep == app'.delivered = app.delivered + 1

\* C16: on the synchronous path (resumed) and on the deferred path
\* (user_event) alike, the step that stores the State invokes the hosted
\* init, after which only the hosted update and render can run: they are
\* invoked only by a handler that found a State whose init had run; and a
\* window event that arrives while no State is stored is discarded: no
\* poll, configure, update, render or exit, nothing changes.
C16_InitBeforeFrames ==
    [][/\ (app.state = "None" /\ app'.state = "Some") =>
             /\ app'.handler = IF app.target = "native" THEN "resumed" ELSE "user_event"
             /\ Count(app', "init") = 1
             /\ app'.inited
             /\ ~Made(app', "update") /\ ~Made(app', "render")
       /\ (Made(app', "update") \/ Made(app', "render")) =>
             app.state = "Some" /\ app.inited
       /\ (WindowEventStep /\ app.state = "None") =>
             /\ app'.calls = << >>
             /\ inner' = inner
             /\ app'.state = "None" /\ ~app'.inited
             /\ app'.exit = app.exit
             /\ app'.config = app.config /\ app'.surface = app.surface
             /\ app'.is_surface_configured = app.is_surface_configured]_vars

\* on the deferred path a close request arrived while State::new was in
\* flight and was discarded
C16_Witness ==
    /\ app.target = "wasm32" /\ app.in_flight /\ app.state = "None"
    /\ app.handler = "CloseRequested" /\ app.calls = << >> /\ ~app.exit

(* C17 *)

\* C17: the dt a frame step passes to the hosted update is the wall-clock
\* time between the handling of the previous redraw request and the
\* handling of this one (there being a previous one).
C17_DtIsRedrawInterval ==
    (app.handler = "RedrawRequested" /\ app.dt # None /\ app.interval # None) =>
        app.dt = Some(as_secs_f64(app.interval[1]))

(* C18 *)

\* the kinds of window event the aggregator consumes: keyboard, cursor
\* move, mouse button, wheel (by lines or by pixels), modifiers changed
InputKinds ==
    {"KeyboardInput", "CursorMoved", "MouseInput", "MouseWheelLine",
     "MouseWheelPixel", "ModifiersChanged"}

\* C18: while a State is stored, the handler of a window event of an input
\* kind calls InputManager::poll exactly once, with that event (it becomes
\* the latest raw event); the handler of an event of any other kind does
\* not call poll and leaves the aggregator, its latest raw event included,
\* as it was; poll is called by nothing else.
C18_OnlyInputEventsPolled ==
    [][/\ (WindowEventStep /\ app.state = "Some" /\ app'.handler \in InputKinds) =>
             /\ Count(app', "poll") = 1
             /\ inner'.latest_event # None
             /\ inner'.latest_event[1].kind = app'.handler
       /\ (WindowEventStep /\ app.state = "Some" /\ app'.handler \notin InputKinds) =>
             /\ ~Made(app', "poll")
             /\ inner' = inner
       /\ Made(app', "poll") =>
             WindowEventStep /\ app.state = "Some" /\ app'.handler \in InputKinds
       /\ inner'.latest_event # None => inner'.latest_event[1].kind \in InputKinds]_vars

\* a cursor move was polled and a resize after it left it the latest raw
\* event
C18_Witness ==
    /\ app.state = "Some" /\ app.handler = "Resized" /\ app.calls = <<"surface.configure">>
    /\ inner.latest_event = Some(CursorMoved(Fin(3), Fin(5)))
    /\ inner.cursor_position # None

(* C19 *)

\* no event drained so far reported the button (the axis) of the device
ButtonNeverReported(id, button) ==
    \A i \in 1..Len(hist.drained) :
        ~(/\ hist.drained[i].id = id /\ hist.drained[i].button = button
          /\ hist.drained[i].kind \in
                {"ButtonPressed", "ButtonReleased", "ButtonChanged"})

AxisNeverReported(id, axis) ==
    \A i \in 1..Len(hist.drained) :
        ~(/\ hist.drained[i].id = id /\ hist.drained[i].axis = axis
          /\ hist.drained[i].kind = "AxisChanged")

\* C19: for a device id with no entry, or a button (an axis) no event
\* reported for an existing entry, is_button_pressed is false, button_value
\* and axis_value are 0.0 and was_button_just_pressed and
\* was_button_just_released are false; and a button-released event is
\* drained for a device with or without an entry: after it the device has
\* an entry.
C19_AbsenceIsDefault ==
    /\ \A id \in GamepadIds, button \in Buttons :
          (id \notin DOMAIN inner.gamepads \/ ButtonNeverReported(id, button)) =>
              /\ ~is_button_pressed(inner, id, button)
              /\ button_value(inner, id, button) = Zero
              /\ ~was_button_just_pressed(inner, id, button)
              /\ ~was_button_just_released(inner, id, button)
    /\ \A id \in GamepadIds, axis \in Axes :
          (id \notin DOMAIN inner.gamepads \/ AxisNeverReported(id, axis)) =>
              axis_value(inner, id, axis) = Zero
    /\ \A i \in 1..Len(hist.drained) :
          hist.drained[i].kind = "ButtonReleased" =>
              hist.drained[i].id \in DOMAIN inner.gamepads

\* the first event drained is the release of a button of a device that had
\* no entry; the other device has none, the other button was never reported
C19_Witness ==
    /\ hist.op = "update_gamepads"
    /\ hist.drained = <<ButtonReleased(2, "South")>>
    /\ DOMAIN inner.gamepads = {2}
    /\ inner.gamepads[2].buttons_down = {}
    /\ was_button_just_released(inner, 2, "South")
    /\ button_value(inner, 2, "Start") = Zero
    /\ ~is_button_pressed(inner, 1, "South")

(* C20 *)

\* C20: the aggregator is constructed once per runtime: once a State, with
\* its InputManager, is stored, no platform signal stores a newly
\* negotiated State with a new InputManager, and only window events change
\* what the aggregator holds, so held keys, buttons and gamepad entries are
\* never lost by re-initialization.
C20_AggregatorNeverReplaced ==
    [][app.state = "Some" =>
          /\ ~NegotiatedStep
          /\ ~WindowEventStep => inner' = inner]_vars

(* C21 *)

\* C21: once a negotiation (State::new) has failed, run has returned an
\* error value to its caller and nothing has panicked, and the handler
\* that ran last invoked no hosted init, update or render.
C21_NegotiationFailureReturned ==
    app.negotiation_failed =>
        /\ app.run = "Err"
        /\ ~app.panicked
        /\ ~Made(app, "init") /\ ~Made(app, "update") /\ ~Made(app, "render")

(* C22 *)

\* the most recent press or release of (id, button) among `events` is a press
LastEdgeIsPress(events, id, button) ==
    LET I == EdgePositions(events, id, button)
    IN /\ I # {}
       /\ events[CHOOSE m \in I : \A n \in I : n <= m].kind = "ButtonPressed"

\* C22: after update_gamepads has drained the pending events in arrival
\* order, a button of a device is held if and only if the most recent
\* button-pressed or button-released event drained so far for that device
\* and button is a press, whatever presses or releases came before it; and
\* a call that drains no press and no release of the button (only
\* button-changed, axis-changed, connected, disconnected or other events)
\* leaves it held or not as it was.
C22_HeldFollowsLastEdge ==
    [][\A id \in GamepadIds, b \in Buttons :
          /\ is_button_pressed(inner', id, b) <=> LastEdgeIsPress(hist'.drained, id, b)
          /\ (hist'.op = "update_gamepads" /\ EdgePositions(hist'.batch, id, b) = {}) =>
                (is_button_pressed(inner', id, b) <=> is_button_pressed(inner, id, b))]_vars

\* a button pressed twice without a release is held
C22_Witness ==
    /\ hist.op = "update_gamepads"
    /\ hist.drained = <<ButtonPressed(1, "South"), ButtonPressed(1, "South")>>
    /\ is_button_pressed(inner, 1, "South")
    /\ ~is_button_pressed(inner, 1, "Start")

(* C23 *)

\* the positions of `events` holding a keyboard event carrying the key
\* code, a mouse-button event for the button
KeyPositions(events, code) ==
    {i \in DOMAIN events :
        events[i].kind = "KeyboardInput" /\ events[i].code = code}

MousePositions(events, button) ==
    {i \in DOMAIN events :
        events[i].kind = "MouseInput" /\ events[i].button = button}

\* the event at the last of the positions I of `events` (there being one)
\* is a press
LastIsPress(events, I) ==
    /\ I # {}
    /\ events[CHOOSE m \in I : \A n \in I : n <= m].state = "Pressed"

\* this step polled an event, the last of the history
Polled(kind) ==
    /\ hist'.op = "poll"
    /\ hist'.polled[Len(hist'.polled)].kind = kind

\* C23: after any sequence of polls, is_key_down reports a key code if and
\* only if the most recent keyboard event carrying that code was a press,
\* and is_mouse_down a mouse button if and only if the most recent
\* mouse-button event for it was a press; a poll of an event that is not a
\* keyboard event leaves the held keys as they were, one of an event that
\* is not a mouse-button event the held mouse buttons, and a keyboard event
\* without a physical key code changes neither the held keys nor last_key.
C23_HeldFollowsLastEvent ==
    [][/\ \A code \in KeyCodes :
             is_key_down(inner', code)
                <=> LastIsPress(hist'.polled, KeyPositions(hist'.polled, code))
       /\ \A button \in MouseButtons :
             is_mouse_down(inner', button)
                <=> LastIsPress(hist'.polled, MousePositions(hist'.polled, button))
       /\ inner'.keys_down \subseteq KeyCodes
       /\ \A kind \in InputKinds \ {"KeyboardInput"} :
             Polled(kind) => inner'.keys_down = inner.keys_down
       /\ \A kind \in InputKinds \ {"MouseInput"} :
             Polled(kind) => inner'.mouse_buttons_down = inner.mouse_buttons_down
       /\ (Polled("KeyboardInput")
             /\ hist'.polled[Len(hist'.polled)].code \notin KeyCodes) =>
             /\ inner'.keys_down = inner.keys_down
             /\ inner'.last_key = inner.last_key]_vars

\* a key was pressed, then another, then an event without a key code
\* reported a release: both keys are held and last_key is the second press
C23_Witness ==
    /\ hist.polled = <<KeyboardInput("KeyA", "Pressed"),
                       KeyboardInput("Escape", "Pressed"),
                       KeyboardInputUnidentified("Released")>>
    /\ is_key_down(inner, "KeyA") /\ is_key_down(inner, "Escape")
    /\ last_key(inner) = Some(<<"Escape", "Pressed">>)

(* C24 *)

\* the delta a wheel event carries, as f32 values
WheelDelta(event) ==
    IF event.kind = "MouseWheelLine" THEN <<event.x, event.y>>
    ELSE <<as_f32(event.x), as_f32(event.y)>>

\* the sum, in f32 arithmetic and in the order polled, of the deltas of the
\* wheel events among events[lo + 1 .. n]
RECURSIVE ScrollSum(_, _, _)
ScrollSum(events, lo, n) ==
    IF n <= lo THEN <<Zero, Zero>>
    ELSE LET before == ScrollSum(events, lo, n - 1)
         IN IF events[n].kind \in {"MouseWheelLine", "MouseWheelPixel"}
            THEN <<FAdd(before[1], WheelDelta(events[n])[1]),
                   FAdd(before[2], WheelDelta(events[n])[2])>>
            ELSE before

\* C24: at any time scroll_delta() is the component-wise sum (of f32
\* values, pixel deltas converted to f32) of the deltas of the wheel
\* events, by lines and by pixels alike, polled since the most recent
\* reset_frame_deltas, or since construction if there was none; events of
\* other kinds do not enter the sum.
C24_ScrollIsSumSinceReset ==
    scroll_delta(inner) = ScrollSum(hist.polled, hist.reset_at, Len(hist.polled))

\* a wheel event was polled before a reset, one by pixels and one by lines
\* after it: the scroll is the sum of the last two
C24_Witness ==
    /\ hist.polled = <<MouseWheelLine(Fin(One), Fin(-One)),
                       MouseWheelPixel(Fin(5), Fin(0)),
                       MouseWheelLine(Fin(-One), Fin(0))>>
    /\ hist.reset_at = 1
    /\ scroll_delta(inner) = <<Fin(5 - One), Fin(0)>>

(* C25 *)

InCriticalSection(t) == conc.pc[t] \in {"locked", "midway"}

\* C25: for any interleaving of operations invoked through clones of the
\* InputManager, a caller is in the body of an operation exactly while it
\* holds the one lock, which it took once for the operation, so at most
\* one caller is in a body; the guarded state differs from what the last
\* returned operation left only while a writer is midway in its body, and
\* no query has read such a state; no caller waits for the lock while
\* holding it; and every caller that waits for the lock gets it.
C25_OperationsAtomic ==
    /\ [](/\ \A t \in Threads :
               /\ InCriticalSection(t) <=> conc.lock = t
               /\ InCriticalSection(t) => conc.acquired[t] = 1
               /\ conc.acquired[t] <= 1
               /\ conc.pc[t] = "waiting" => conc.lock # t
          /\ Visible(inner) # conc.committed =>
               \E t \in Threads :
                   conc.pc[t] = "midway" /\ conc.op[t][1] # "is_key_down"
          /\ ~conc.torn)
    /\ \A t \in Threads : (conc.pc[t] = "waiting") ~> (conc.pc[t] = "locked")

\* a poll has written last_key and not yet the held keys, while another
\* caller waits in lock() with a query
C25_Witness ==
    /\ conc.pc[1] = "midway" /\ conc.op[1] = <<"poll", KeyboardInput("KeyA", "Pressed")>>
    /\ inner.last_key = Some(<<"KeyA", "Pressed">>)
    /\ ~is_key_down(inner, "KeyA")
    /\ conc.pc[2] = "waiting" /\ conc.op[2] = <<"is_key_down">>

====
